---- MODULE Spec2Model ----
(***************************************************************************)
(* Assignment and progress engine of the onboarding module                 *)
(* (OnboardingService in modulo-5-onboarding.md): assign_flow,             *)
(* complete_module, submit_quiz and _update_assignment_progress over the   *)
(* tables onboarding_modules, onboarding_assignments and module_progress.  *)
(*                                                                         *)
(* Conventions for nullable columns: a DateTime that is None is 0 and a    *)
(* set DateTime is a clock value >= 1; quiz_score None is -1; quiz_passed  *)
(* and notes None are the string "None".  Row ids are table indices.       *)
(***************************************************************************)
EXTENDS Integers, Sequences, FiniteSets, TLC

VARIABLES
    onboarding_modules,      \* table: rows of OnboardingModule (the flow catalog)
    onboarding_assignments,  \* table: rows of OnboardingAssignment
    module_progress,         \* table: rows of ModuleProgress
    now,                     \* datetime.utcnow(), a logical clock
    result,                  \* outcome of the last service call
    sessions,                \* per database session: the handler in flight
    progress,                \* AssignmentPage: module progress data of the query cache
    selectedModuleIndex      \* AssignmentPage: useState(0)

vars == <<onboarding_modules, onboarding_assignments, module_progress, now,
          result, sessions, progress, selectedModuleIndex>>

page == <<progress, selectedModuleIndex>>

tables == <<onboarding_assignments, module_progress>>

(***************************************************************************)
(* Bounds of the model                                                     *)
(***************************************************************************)
MaxModules == 3
MaxAssignments == 2
MaxClock == 3
MaxQuestions == 3

(***************************************************************************)
(* Inputs                                                                  *)
(***************************************************************************)
Users == {"u1", "u2"}
FlowIds == {1, 2}
FlowInputs == FlowIds \cup {3}
Answers == {"A", "B"}

(***************************************************************************)
(* Enums and exceptions                                                    *)
(***************************************************************************)
NOT_STARTED == "not_started"
IN_PROGRESS == "in_progress"
COMPLETED == "completed"

Ok == "ok"
NotFoundException == "NotFound"
ForbiddenException == "Forbidden"
ValidationException == "Validation"
\* Failure kinds of the engine's taxonomy that no handler raises.
Conflict == "Conflict"
Locked == "Locked"

(***************************************************************************)
(* Helpers over tables                                                     *)
(***************************************************************************)
Indices(s) == 1..Len(s)

Min(S) == CHOOSE x \in S : \A y \in S : x <= y

\* Variant of PyIntPct that rounds to the nearest integer instead of
\* truncating.
PyIntPctRounded(c, n) == (200 * c + n) \div (2 * n)

\* int((c / n) * 100): Python float division, times 100, truncated.  For
\* every 0 <= c <= n < 50 the float result truncates to floor(100c/n).
PyIntPct(c, n) == (c * 100) \div n

\* str(i) for the question indices in use.
Str(i) == <<"0", "1", "2", "3", "4", "5", "6", "7", "8", "9">>[i + 1]

(***************************************************************************)
(* Flow catalog                                                            *)
(***************************************************************************)
\* quiz_data of a quiz module; passing_score -1 is an absent key.
QuizOne == [questions |-> <<"A">>, passing_score |-> -1]
NoQuiz == [questions |-> <<>>, passing_score |-> -1]

ModuleKinds ==
    { [content_type |-> "text", is_required |-> r, quiz_data |-> NoQuiz] : r \in BOOLEAN }
    \cup
    { [content_type |-> "quiz", is_required |-> r, quiz_data |-> QuizOne] : r \in BOOLEAN }

\* Module rows of a catalog: kinds[i] placed in flow flows[i], order = rank
\* inside its flow (positions 0, 1, ... as the authoring UI numbers them).
ModuleRows(kinds, flows) ==
    [i \in Indices(kinds) |->
        [id |-> i,
         flow_id |-> flows[i],
         order |-> Cardinality({j \in 1..(i - 1) : flows[j] = flows[i]}),
         is_required |-> kinds[i].is_required,
         content_type |-> kinds[i].content_type,
         quiz_data |-> kinds[i].quiz_data]]

\* The catalogs explored: flow 1 holds 0..MaxModules modules of any kinds, at
\* most one of them a quiz; flow 2 exists and has no module.
AtMostOneQuiz(kinds) ==
    \A i, j \in DOMAIN kinds :
        (kinds[i].content_type = "quiz" /\ kinds[j].content_type = "quiz") => i = j

Catalogs ==
    UNION { { ModuleRows(kinds, [i \in 1..n |-> 1]) :
                kinds \in {k \in [1..n -> ModuleKinds] : AtMostOneQuiz(k)} } :
            n \in 0..MaxModules }

\* flow.modules: relationship ordered by OnboardingModule.order (rows of equal
\* order in id order)
RECURSIVE SeqByOrder(_)
SeqByOrder(ids) ==
    IF ids = {} THEN <<>>
    ELSE LET first == CHOOSE i \in ids : \A j \in ids :
                          \/ onboarding_modules[i].order < onboarding_modules[j].order
                          \/ /\ onboarding_modules[i].order = onboarding_modules[j].order
                             /\ i <= j
         IN  <<first>> \o SeqByOrder(ids \ {first})

FlowModules(flow_id) ==
    LET ids == {i \in Indices(onboarding_modules) :
                    onboarding_modules[i].flow_id = flow_id}
        sorted == SeqByOrder(ids)
    IN  [k \in 1..Cardinality(ids) |-> onboarding_modules[sorted[k]]]

ModuleAt(flow_id, position) ==
    {m \in Indices(onboarding_modules) :
        /\ onboarding_modules[m].flow_id = flow_id
        /\ onboarding_modules[m].order = position}

(***************************************************************************)
(* Rows                                                                    *)
(***************************************************************************)
\* Variant of NewAssignment that stamps started_at at creation.
NewAssignmentStarted(flow_id, user_id, t) ==
    [flow_id |-> flow_id, user_id |-> user_id, status |-> NOT_STARTED,
     assigned_at |-> t, started_at |-> t, completed_at |-> 0,
     completion_percentage |-> 0]

\* OnboardingAssignment(**data.model_dump(), ...) with the column defaults
NewAssignment(flow_id, user_id, t) ==
    [flow_id |-> flow_id, user_id |-> user_id, status |-> NOT_STARTED,
     assigned_at |-> t, started_at |-> 0, completed_at |-> 0,
     completion_percentage |-> 0]

NewProgress(assignment_id, module_id) ==
    [assignment_id |-> assignment_id, module_id |-> module_id,
     is_completed |-> FALSE, completed_at |-> 0, time_spent_minutes |-> 0,
     quiz_score |-> -1, quiz_passed |-> "None", notes |-> "None"]

\* assignment.module_progress, read from a progress table
ProgressOf(rows, assignment_id) ==
    {i \in Indices(rows) : rows[i].assignment_id = assignment_id}

\* db.query(ModuleProgress).filter(assignment_id, module_id).first(); 0 = None
FirstProgress(rows, assignment_id, module_id) ==
    LET hits == {i \in Indices(rows) :
                    /\ rows[i].assignment_id = assignment_id
                    /\ rows[i].module_id = module_id}
    IN  IF hits = {} THEN 0 ELSE Min(hits)

(***************************************************************************)
(* Quiz grading (submit_quiz, "Calificar quiz")                            *)
(***************************************************************************)
DefaultPassingScore == 70

AnswerKeys == {"0"}
AnswerMaps == UNION { [K -> Answers] : K \in SUBSET AnswerKeys }

\* dict.get(key): None when the key is absent
DictGet(d, key) == IF key \in DOMAIN d THEN d[key] ELSE "None"

CorrectCount(questions, answers) ==
    Cardinality({i \in 0..(Len(questions) - 1) :
                    DictGet(answers, Str(i)) = questions[i + 1]})

\* Variant of GradeQuiz that passes only above passing_score.
GradeQuizStrict(quiz_data, answers) ==
    LET questions == quiz_data.questions
        passing_score == IF quiz_data.passing_score = -1
                         THEN DefaultPassingScore
                         ELSE quiz_data.passing_score
        score == IF Len(questions) > 0
                 THEN PyIntPct(CorrectCount(questions, answers), Len(questions))
                 ELSE 0
    IN  [score |-> score, passed |-> score > passing_score]

\* submit_quiz, "Calificar quiz": questions, passing_score, score, passed
GradeQuiz(quiz_data, answers) ==
    LET questions == quiz_data.questions
        passing_score == IF quiz_data.passing_score = -1
                         THEN DefaultPassingScore
                         ELSE quiz_data.passing_score
        score == IF Len(questions) > 0
                 THEN PyIntPct(CorrectCount(questions, answers), Len(questions))
                 ELSE 0
    IN  [score |-> score, passed |-> score >= passing_score]

(***************************************************************************)
(* Handler bodies as functions of the rows a session holds                 *)
(***************************************************************************)
\* Variant of MarkCompleted that toggles the completion flag.
MarkCompletedToggling(p, notes, time_spent, t) ==
    [p EXCEPT !.is_completed = ~@,
              !.completed_at = t,
              !.notes = IF notes # "None" THEN notes ELSE @,
              !.time_spent_minutes = IF time_spent # 0 THEN time_spent ELSE @]

\* complete_module: "Marcar como completado", notes, time_spent_minutes
MarkCompleted(p, notes, time_spent, t) ==
    [p EXCEPT !.is_completed = TRUE,
              !.completed_at = t,
              !.notes = IF notes # "None" THEN notes ELSE @,
              !.time_spent_minutes = IF time_spent # 0 THEN time_spent ELSE @]

\* Variant of RecordQuiz that assigns is_completed = passed, so a failed
\* attempt clears a completion.
RecordQuizAssigning(p, grade, time_spent, t) ==
    [p EXCEPT !.quiz_score = grade.score,
              !.quiz_passed = IF grade.passed THEN "True" ELSE "False",
              !.is_completed = grade.passed,
              !.completed_at = IF grade.passed THEN t ELSE @,
              !.time_spent_minutes = IF time_spent # 0 THEN time_spent ELSE @]

\* submit_quiz: "Actualizar progress"
RecordQuiz(p, grade, time_spent, t) ==
    [p EXCEPT !.quiz_score = grade.score,
              !.quiz_passed = IF grade.passed THEN "True" ELSE "False",
              !.is_completed = IF grade.passed THEN TRUE ELSE @,
              !.completed_at = IF grade.passed THEN t ELSE @,
              !.time_spent_minutes = IF time_spent # 0 THEN time_spent ELSE @]

\* "Actualizar started_at del assignment si es el primer módulo"
StartIfFirst(assignment, t) ==
    IF assignment.started_at = 0
    THEN [assignment EXCEPT !.started_at = t, !.status = IN_PROGRESS]
    ELSE assignment

\* required_completed = all(any(...) for m in required_modules)
AllRequiredCompleted(flow_id, assignment_id, rows) ==
    \A m \in Indices(onboarding_modules) :
        (onboarding_modules[m].flow_id = flow_id /\ onboarding_modules[m].is_required)
        => \E i \in ProgressOf(rows, assignment_id) :
              rows[i].module_id = m /\ rows[i].is_completed

\* Variant of CompletedCount that counts the committed table instead of the
\* rows the session holds, as a query that bypasses the pending changes would.
CompletedCountCommitted(assignment_id, rows) ==
    Cardinality({i \in ProgressOf(module_progress, assignment_id) :
                    module_progress[i].is_completed})

CompletedCount(assignment_id, rows) ==
    Cardinality({i \in ProgressOf(rows, assignment_id) : rows[i].is_completed})

\* Variant of UpdateAssignmentProgress whose last branch is a plain "if"
\* instead of "elif": a positive percentage overwrites COMPLETED.
UpdateAssignmentProgressNoElif(assignment, assignment_id, rows, t) ==
    LET total_modules == Len(FlowModules(assignment.flow_id))
        pct == PyIntPct(CompletedCount(assignment_id, rows), total_modules)
    IN  IF total_modules = 0
        THEN [assignment EXCEPT !.completion_percentage = 100,
                                !.status = COMPLETED,
                                !.completed_at = t]
        ELSE IF pct > 0
        THEN [assignment EXCEPT !.completion_percentage = pct,
                                !.status = IN_PROGRESS,
                                !.completed_at =
                                    IF AllRequiredCompleted(assignment.flow_id,
                                                            assignment_id, rows)
                                    THEN t ELSE @]
        ELSE IF AllRequiredCompleted(assignment.flow_id, assignment_id, rows)
        THEN [assignment EXCEPT !.completion_percentage = pct,
                                !.status = COMPLETED,
                                !.completed_at = t]
        ELSE [assignment EXCEPT !.completion_percentage = pct]

\* _update_assignment_progress over the progress rows the session sees
UpdateAssignmentProgress(assignment, assignment_id, rows, t) ==
    LET total_modules == Len(FlowModules(assignment.flow_id))
        pct == PyIntPct(CompletedCount(assignment_id, rows), total_modules)
    IN  IF total_modules = 0
        THEN [assignment EXCEPT !.completion_percentage = 100,
                                !.status = COMPLETED,
                                !.completed_at = t]
        ELSE IF AllRequiredCompleted(assignment.flow_id, assignment_id, rows)
        THEN [assignment EXCEPT !.completion_percentage = pct,
                                !.status = COMPLETED,
                                !.completed_at = t]
        ELSE IF pct > 0
        THEN [assignment EXCEPT !.completion_percentage = pct,
                                !.status = IN_PROGRESS]
        ELSE [assignment EXCEPT !.completion_percentage = pct]

\* Variant of ExistingActive without the status filter.
ExistingAnyStatus(asgs, flow_id, user_id) ==
    \E a \in Indices(asgs) :
        /\ asgs[a].flow_id = flow_id
        /\ asgs[a].user_id = user_id

\* assign_flow: "Verificar que el usuario no tenga ya este flow asignado"
ExistingActive(asgs, flow_id, user_id) ==
    \E a \in Indices(asgs) :
        /\ asgs[a].flow_id = flow_id
        /\ asgs[a].user_id = user_id
        /\ asgs[a].status # COMPLETED

\* Variant of ProgressRowsFor whose loop stops one module early.
ProgressRowsSkippingLast(assignment_id, flow_id) ==
    [k \in 1..(Len(FlowModules(flow_id)) - 1) |->
        NewProgress(assignment_id, FlowModules(flow_id)[k].id)]

\* assign_flow: one ModuleProgress per module of flow.modules
ProgressRowsFor(assignment_id, flow_id) ==
    [k \in Indices(FlowModules(flow_id)) |->
        NewProgress(assignment_id, FlowModules(flow_id)[k].id)]

(***************************************************************************)
(* Outcomes: the exception a call raises, or Ok                            *)
(***************************************************************************)
AssignOutcome(asgs, flow_id, user_id) ==
    IF flow_id \notin FlowIds THEN NotFoundException
    ELSE IF ExistingActive(asgs, flow_id, user_id) THEN ValidationException
    ELSE Ok

\* Variant of CompleteOutcome without the ownership check.
CompleteOutcomeNoOwner(asgs, rows, assignment_id, module_id, user_id) ==
    LET i == FirstProgress(rows, assignment_id, module_id)
    IN  IF i = 0 THEN NotFoundException ELSE Ok

\* complete_module: NotFoundException, then ForbiddenException
CompleteOutcome(asgs, rows, assignment_id, module_id, user_id) ==
    LET i == FirstProgress(rows, assignment_id, module_id)
    IN  IF i = 0 THEN NotFoundException
        ELSE IF asgs[rows[i].assignment_id].user_id # user_id THEN ForbiddenException
        ELSE Ok

\* Variant of SubmitOutcome that checks ownership before the module type.
SubmitOutcomeOwnerFirst(asgs, rows, assignment_id, module_id, user_id) ==
    LET i == FirstProgress(rows, assignment_id, module_id)
    IN  IF i = 0 THEN NotFoundException
        ELSE IF asgs[rows[i].assignment_id].user_id # user_id THEN ForbiddenException
        ELSE IF onboarding_modules[rows[i].module_id].content_type # "quiz"
        THEN ValidationException
        ELSE Ok

\* submit_quiz: NotFoundException, ValidationException, ForbiddenException
SubmitOutcome(asgs, rows, assignment_id, module_id, user_id) ==
    LET i == FirstProgress(rows, assignment_id, module_id)
    IN  IF i = 0 THEN NotFoundException
        ELSE IF onboarding_modules[rows[i].module_id].content_type # "quiz"
        THEN ValidationException
        ELSE IF asgs[rows[i].assignment_id].user_id # user_id THEN ForbiddenException
        ELSE Ok

(***************************************************************************)
(* Sessions                                                                *)
(***************************************************************************)
Sessions == {"s1", "s2"}
Idle == [pc |-> "idle"]
AllIdle == \A s \in Sessions : sessions[s] = Idle

(***************************************************************************)
(* Initial state                                                           *)
(***************************************************************************)
Init ==
    /\ onboarding_modules \in Catalogs
    /\ onboarding_assignments = <<>>
    /\ module_progress = <<>>
    /\ now = 1
    /\ result = Ok
    /\ sessions = [s \in Sessions |-> Idle]
    /\ progress = <<>>
    /\ selectedModuleIndex = 0

Fail(outcome) ==
    /\ result' = outcome
    /\ UNCHANGED <<page, onboarding_modules, onboarding_assignments, module_progress,
                   now, sessions>>

(***************************************************************************)
(* Handlers run one at a time, each in its own transaction                 *)
(***************************************************************************)
AssignFlow(flow_id, user_id) ==
    LET outcome == AssignOutcome(onboarding_assignments, flow_id, user_id)
        id == Len(onboarding_assignments) + 1
    IN  /\ AllIdle
        /\ now <= MaxClock
        /\ IF outcome # Ok THEN Fail(outcome)
           ELSE /\ id <= MaxAssignments
                /\ onboarding_assignments' =
                       Append(onboarding_assignments, NewAssignment(flow_id, user_id, now))
                /\ module_progress' = module_progress \o ProgressRowsFor(id, flow_id)
                /\ now' = now + 1
                /\ result' = Ok
                /\ UNCHANGED <<page, onboarding_modules, sessions>>

CompleteModule(assignment_id, module_id, user_id, notes, time_spent) ==
    LET outcome == CompleteOutcome(onboarding_assignments, module_progress,
                                   assignment_id, module_id, user_id)
        i == FirstProgress(module_progress, assignment_id, module_id)
        rows == [module_progress EXCEPT
                    ![i] = MarkCompleted(@, notes, time_spent, now)]
        a == module_progress[i].assignment_id
    IN  /\ AllIdle
        /\ now <= MaxClock
        /\ IF outcome # Ok THEN Fail(outcome)
           ELSE /\ module_progress' = rows
                /\ onboarding_assignments' =
                       [onboarding_assignments EXCEPT
                           ![a] = UpdateAssignmentProgress(StartIfFirst(@, now), a, rows, now)]
                /\ now' = now + 1
                /\ result' = Ok
                /\ UNCHANGED <<page, onboarding_modules, sessions>>

SubmitQuiz(assignment_id, module_id, user_id, answers, time_spent) ==
    LET outcome == SubmitOutcome(onboarding_assignments, module_progress,
                                 assignment_id, module_id, user_id)
        i == FirstProgress(module_progress, assignment_id, module_id)
        grade == GradeQuiz(onboarding_modules[module_progress[i].module_id].quiz_data,
                           answers)
        rows == [module_progress EXCEPT
                    ![i] = RecordQuiz(@, grade, time_spent, now)]
        a == module_progress[i].assignment_id
    IN  /\ AllIdle
        /\ now <= MaxClock
        /\ IF outcome # Ok THEN Fail(outcome)
           ELSE /\ module_progress' = rows
                /\ onboarding_assignments' =
                       [onboarding_assignments EXCEPT
                           ![a] = UpdateAssignmentProgress(StartIfFirst(@, now), a, rows, now)]
                /\ now' = now + 1
                /\ result' = Ok
                /\ UNCHANGED <<page, onboarding_modules, sessions>>

AssignmentInputs == 1..MaxAssignments
ModuleInputs == 1..MaxModules

Assign == \E f \in FlowInputs, u \in Users : AssignFlow(f, u)

\* Requests of the lifecycle specification carry neither notes nor
\* time_spent_minutes (both None).
Complete ==
    \E a \in AssignmentInputs, m \in ModuleInputs, u \in Users :
        CompleteModule(a, m, u, "None", 0)

Submit ==
    \E a \in AssignmentInputs, m \in ModuleInputs, u \in Users,
       ans \in AnswerMaps :
        SubmitQuiz(a, m, u, ans, 0)

Next == Assign \/ Complete \/ Submit

Spec == Init /\ [][Next]_vars

(***************************************************************************)
(* The same handlers as database sessions that interleave.  A session     *)
(* (SessionLocal, autoflush off) reads committed rows, keeps the rows it   *)
(* loaded in its identity map, and writes at db.commit() the columns it    *)
(* changed.                                                                *)
(***************************************************************************)
\* Unit of work at flush: UPDATE only the columns whose value differs from
\* the value loaded.
FlushRow(db_row, loaded, current) ==
    [f \in DOMAIN db_row |->
        IF current[f] # loaded[f] THEN current[f] ELSE db_row[f]]

PendingAssigns == {s \in Sessions : sessions[s].pc = "assign"}

\* assign_flow up to db.add(assignment)
BeginAssign(s, flow_id, user_id) ==
    LET outcome == AssignOutcome(onboarding_assignments, flow_id, user_id)
    IN  /\ sessions[s] = Idle
        /\ now <= MaxClock
        /\ IF outcome # Ok
           THEN /\ result' = outcome
                /\ UNCHANGED <<page, onboarding_modules, onboarding_assignments,
                               module_progress, now, sessions>>
           ELSE /\ Len(onboarding_assignments) + Cardinality(PendingAssigns)
                       < MaxAssignments
                /\ sessions' = [sessions EXCEPT ![s] =
                       [pc |-> "assign",
                        row |-> NewAssignment(flow_id, user_id, now)]]
                /\ now' = now + 1
                /\ UNCHANGED <<page, onboarding_modules, onboarding_assignments,
                               module_progress, result>>

\* assign_flow from db.flush() to db.commit(): the assignment and its
\* ModuleProgress rows become visible together
CommitAssign(s) ==
    LET id == Len(onboarding_assignments) + 1
    IN  /\ sessions[s].pc = "assign"
        /\ onboarding_assignments' = Append(onboarding_assignments, sessions[s].row)
        /\ module_progress' =
               module_progress \o ProgressRowsFor(id, sessions[s].row.flow_id)
        /\ sessions' = [sessions EXCEPT ![s] = Idle]
        /\ result' = Ok
        /\ UNCHANGED <<page, onboarding_modules, now>>

Loaded(i, p, a, t) ==
    [pc |-> "loaded", i |-> i, a |-> a, t |-> t,
     p0 |-> module_progress[i], p |-> p,
     asg0 |-> onboarding_assignments[a],
     asg |-> StartIfFirst(onboarding_assignments[a], t)]

\* complete_module up to the call of _update_assignment_progress
BeginComplete(s, assignment_id, module_id, user_id, notes, time_spent) ==
    LET outcome == CompleteOutcome(onboarding_assignments, module_progress,
                                   assignment_id, module_id, user_id)
        i == FirstProgress(module_progress, assignment_id, module_id)
    IN  /\ sessions[s] = Idle
        /\ now <= MaxClock
        /\ IF outcome # Ok
           THEN /\ result' = outcome
                /\ UNCHANGED <<page, onboarding_modules, onboarding_assignments,
                               module_progress, now, sessions>>
           ELSE /\ sessions' = [sessions EXCEPT ![s] =
                       Loaded(i, MarkCompleted(module_progress[i], notes, time_spent, now),
                              module_progress[i].assignment_id, now)]
                /\ now' = now + 1
                /\ UNCHANGED <<page, onboarding_modules, onboarding_assignments,
                               module_progress, result>>

\* submit_quiz up to the call of _update_assignment_progress
BeginSubmit(s, assignment_id, module_id, user_id, answers, time_spent) ==
    LET outcome == SubmitOutcome(onboarding_assignments, module_progress,
                                 assignment_id, module_id, user_id)
        i == FirstProgress(module_progress, assignment_id, module_id)
        grade == GradeQuiz(onboarding_modules[module_progress[i].module_id].quiz_data,
                           answers)
    IN  /\ sessions[s] = Idle
        /\ now <= MaxClock
        /\ IF outcome # Ok
           THEN /\ result' = outcome
                /\ UNCHANGED <<page, onboarding_modules, onboarding_assignments,
                               module_progress, now, sessions>>
           ELSE /\ sessions' = [sessions EXCEPT ![s] =
                       Loaded(i, RecordQuiz(module_progress[i], grade, time_spent, now),
                              module_progress[i].assignment_id, now)]
                /\ now' = now + 1
                /\ UNCHANGED <<page, onboarding_modules, onboarding_assignments,
                               module_progress, result>>

\* _update_assignment_progress: assignment.module_progress is loaded now; the
\* session's own progress row comes from its identity map
Recompute(s) ==
    LET ses == sessions[s]
        rows == [module_progress EXCEPT ![ses.i] = ses.p]
    IN  /\ ses.pc = "loaded"
        /\ sessions' = [sessions EXCEPT ![s] =
               [ses EXCEPT !.pc = "computed",
                           !.asg = UpdateAssignmentProgress(ses.asg, ses.a, rows, ses.t)]]
        /\ UNCHANGED <<page, onboarding_modules, onboarding_assignments, module_progress,
                       now, result>>

\* db.commit() of complete_module / submit_quiz
Commit(s) ==
    LET ses == sessions[s]
    IN  /\ ses.pc = "computed"
        /\ module_progress' =
               [module_progress EXCEPT ![ses.i] = FlushRow(@, ses.p0, ses.p)]
        /\ onboarding_assignments' =
               [onboarding_assignments EXCEPT ![ses.a] = FlushRow(@, ses.asg0, ses.asg)]
        /\ sessions' = [sessions EXCEPT ![s] = Idle]
        /\ result' = Ok
        /\ UNCHANGED <<page, onboarding_modules, now>>

AssignBegin == \E s \in Sessions, f \in FlowInputs, u \in Users : BeginAssign(s, f, u)

AssignCommit == \E s \in Sessions : CommitAssign(s)

CompleteBegin ==
    \E s \in Sessions, a \in AssignmentInputs, m \in ModuleInputs, u \in Users :
        BeginComplete(s, a, m, u, "None", 0)

SubmitBegin ==
    \E s \in Sessions, a \in AssignmentInputs, m \in ModuleInputs, u \in Users,
       ans \in AnswerMaps :
        BeginSubmit(s, a, m, u, ans, 0)

Aggregate == \E s \in Sessions : Recompute(s)

CommitProgress == \E s \in Sessions : Commit(s)

NextConc ==
    \/ AssignBegin
    \/ AssignCommit
    \/ CompleteBegin
    \/ SubmitBegin
    \/ Aggregate
    \/ CommitProgress

SpecConc == Init /\ [][NextConc]_vars

(***************************************************************************)
(* The handlers, one at a time, over flows of exactly two modules: the     *)
(* kinds and required flags vary, at most one module is a quiz.            *)
(***************************************************************************)
TwoModuleCatalogs ==
    { ModuleRows(kinds, <<1, 1>>) :
        kinds \in {k \in [1..2 -> ModuleKinds] : AtMostOneQuiz(k)} }

InitTwo ==
    /\ onboarding_modules \in TwoModuleCatalogs
    /\ onboarding_assignments = <<>>
    /\ module_progress = <<>>
    /\ now = 1
    /\ result = Ok
    /\ sessions = [s \in Sessions |-> Idle]
    /\ progress = <<>>
    /\ selectedModuleIndex = 0

SpecTwo == InitTwo /\ [][Next]_vars

(***************************************************************************)
(* Grading: the handlers over flows of one quiz module whose quiz_data     *)
(* ranges over question lists of 0..MaxQuestions questions and over the    *)
(* passing scores absent (-1), 0 and 50, with answer maps over the         *)
(* question indices.                                                       *)
(***************************************************************************)
PassingScores == {-1, 0, 50}

QuestionLists == UNION { [1..n -> Answers] : n \in 0..MaxQuestions }

QuizDefinitions ==
    { [questions |-> q, passing_score |-> ps] :
        q \in QuestionLists, ps \in PassingScores }

GradeCatalogs ==
    { << [id |-> 1, flow_id |-> 1, order |-> 0, is_required |-> TRUE,
          content_type |-> "quiz", quiz_data |-> qd] >> :
        qd \in QuizDefinitions }

\* Answer maps that answer the first k questions, k = 0..MaxQuestions.
GradeAnswerMaps ==
    UNION { [{ Str(i) : i \in 0..(k - 1) } -> Answers] : k \in 0..MaxQuestions }

InitGrade ==
    /\ onboarding_modules \in GradeCatalogs
    /\ onboarding_assignments = <<>>
    /\ module_progress = <<>>
    /\ now = 1
    /\ result = Ok
    /\ sessions = [s \in Sessions |-> Idle]
    /\ progress = <<>>
    /\ selectedModuleIndex = 0

GradeUser == "u1"

AssignGrade == AssignFlow(1, GradeUser)

SubmitGrade ==
    \E a \in AssignmentInputs, ans \in GradeAnswerMaps :
        SubmitQuiz(a, 1, GradeUser, ans, 0)

NextGrade == AssignGrade \/ SubmitGrade

SpecGrade == InitGrade /\ [][NextGrade]_vars

(***************************************************************************)
(* State functions used by the properties                                  *)
(***************************************************************************)
AssignmentIds == Indices(onboarding_assignments)

\* Modules of the flow an assignment refers to
ModulesOf(a) ==
    {m \in Indices(onboarding_modules) :
        onboarding_modules[m].flow_id = onboarding_assignments[a].flow_id}

TotalCount(a) == Cardinality(ModulesOf(a))

RowsOf(a, m) ==
    {i \in Indices(module_progress) :
        module_progress[i].assignment_id = a /\ module_progress[i].module_id = m}

Done(a, m) == \E i \in RowsOf(a, m) : module_progress[i].is_completed

DoneCount(a) == Cardinality({m \in ModulesOf(a) : Done(a, m)})

RequiredDone(a) ==
    \A m \in ModulesOf(a) : onboarding_modules[m].is_required => Done(a, m)

\* round(100 * c / n), halves up
RoundPct(c, n) == (200 * c + n) \div (2 * n)

SamePair(a, b) ==
    /\ onboarding_assignments[a].flow_id = onboarding_assignments[b].flow_id
    /\ onboarding_assignments[a].user_id = onboarding_assignments[b].user_id

Active(a) == onboarding_assignments[a].status # COMPLETED

\* The module one position before m in its flow is not completed for a.
PredecessorIncomplete(a, m) ==
    /\ a \in AssignmentIds
    /\ m \in ModulesOf(a)
    /\ onboarding_modules[m].order >= 1
    /\ \E q \in ModuleAt(onboarding_modules[m].flow_id, onboarding_modules[m].order - 1) :
           ~Done(a, q)

Owner(a) == onboarding_assignments[a].user_id

C2_CompletedIffRequiredDone ==
    \A a \in AssignmentIds :
        TotalCount(a) >= 1 =>
            (onboarding_assignments[a].status = COMPLETED <=> RequiredDone(a))

(***************************************************************************)
(* C3: a completeModule call by the owner, or a submitQuiz call by the     *)
(* owner on a quiz module, that targets the module at position k >= 1      *)
(* while the module at position k-1 is not completed, fails with Locked    *)
(* and changes no assignment or progress row.                              *)
(***************************************************************************)
C3_LockedIsEnforced ==
    [][\A a \in AssignmentInputs, m \in ModuleInputs :
          (/\ PredecessorIncomplete(a, m)
           /\ \/ CompleteModule(a, m, Owner(a), "None", 0)
              \/ /\ onboarding_modules[m].content_type = "quiz"
                 /\ \E ans \in AnswerMaps : SubmitQuiz(a, m, Owner(a), ans, 0))
          => (result' = Locked /\ UNCHANGED tables)]_vars

C5_FreshAssignment ==
    [][Len(onboarding_assignments') = Len(onboarding_assignments) + 1 =>
          LET a == Len(onboarding_assignments')
              row == onboarding_assignments'[a]
              mine == ProgressOf(module_progress', a)
              n == Cardinality({m \in Indices(onboarding_modules) :
                                   onboarding_modules[m].flow_id = row.flow_id})
          IN  n >= 1 =>
                /\ row.status = NOT_STARTED
                /\ row.completion_percentage = 0
                /\ row.started_at = 0
                /\ row.completed_at = 0
                /\ Cardinality(mine) = n
                /\ \A i \in mine : ~module_progress'[i].is_completed]_vars

C5_Witness ==
    \E a \in AssignmentIds :
        /\ TotalCount(a) = 3
        /\ onboarding_assignments[a].status = NOT_STARTED
        /\ onboarding_assignments[a].assigned_at + 1 = now

(***************************************************************************)
(* C6: an assignment over a flow with zero modules is at 100 percent,      *)
(* COMPLETED, with completed_at set, from the moment assign creates it.    *)
(***************************************************************************)
C6_EmptyFlowCompletedAtOnce ==
    \A a \in AssignmentIds :
        TotalCount(a) = 0 =>
            /\ onboarding_assignments[a].completion_percentage = 100
            /\ onboarding_assignments[a].status = COMPLETED
            /\ onboarding_assignments[a].completed_at # 0

(***************************************************************************)
(* C7: assign(flow, user) on an existing flow is rejected, creating no     *)
(* row, exactly when a non-COMPLETED assignment of that (flow, user)       *)
(* exists, and otherwise succeeds; so no two non-COMPLETED assignments     *)
(* share a (flow, user) pair.  AssignRule(kind) states it for the failure  *)
(* kind the rejection carries.                                             *)
(***************************************************************************)
AtMostOneActive ==
    \A a, b \in AssignmentIds : (SamePair(a, b) /\ Active(a) /\ Active(b)) => a = b

AssignRule(kind) ==
    \A f \in FlowIds, u \in Users :
        AssignFlow(f, u) =>
            IF \E a \in AssignmentIds :
                   /\ onboarding_assignments[a].flow_id = f
                   /\ onboarding_assignments[a].user_id = u
                   /\ Active(a)
            THEN result' = kind /\ UNCHANGED tables
            ELSE /\ result' = Ok
                 /\ Len(onboarding_assignments') = Len(onboarding_assignments) + 1
                 /\ onboarding_assignments'[Len(onboarding_assignments')].flow_id = f
                 /\ onboarding_assignments'[Len(onboarding_assignments')].user_id = u

C8_NoDuplicateActiveUnderRace ==
    \A a \in AssignmentIds : \A b \in AssignmentIds \ {a} :
        SamePair(a, b) => (~Active(a) \/ ~Active(b))

(***************************************************************************)
(* C9: under interleaved sessions, whenever no handler is in flight, every *)
(* assignment some completeModule/submitQuiz call has committed to carries *)
(* the percentage and status recomputed from the committed ModuleProgress  *)
(* rows.                                                                   *)
(***************************************************************************)
C9_NoLostUpdate ==
    AllIdle =>
        \A a \in AssignmentIds :
            (TotalCount(a) >= 1 /\ onboarding_assignments[a].started_at # 0) =>
                /\ onboarding_assignments[a].completion_percentage
                       = PyIntPct(DoneCount(a), TotalCount(a))
                /\ onboarding_assignments[a].status = COMPLETED <=> RequiredDone(a)

(***************************************************************************)
(* C10: started_at of an assignment is set by the first step that          *)
(* completes one of its modules and by no other step: it never changes     *)
(* once set, a step that completes a module leaves it set, and a step that *)
(* completes no module (a failed quiz submission) leaves it unset.         *)
(***************************************************************************)
CompletesModule(a) ==
    \E i \in ProgressOf(module_progress, a) :
        /\ module_progress'[i].is_completed
        /\ module_progress'[i].completed_at # module_progress[i].completed_at

C10_StartedAtOnFirstCompletion ==
    [][\A a \in AssignmentIds :
          LET before == onboarding_assignments[a].started_at
              after == onboarding_assignments'[a].started_at
          IN  /\ before # 0 => after = before
              /\ (before = 0 /\ after # 0) => CompletesModule(a)
              /\ CompletesModule(a) => after # 0]_vars

(***************************************************************************)
(* C11: completed_at of an assignment is written once: no step changes a   *)
(* completed_at that is already set (re-completing a module, completing an *)
(* optional module and resubmitting a quiz leave it as it was).            *)
(***************************************************************************)
C11_CompletedAtWrittenOnce ==
    [][\A a \in AssignmentIds :
          onboarding_assignments[a].completed_at # 0 =>
              onboarding_assignments'[a].completed_at
                  = onboarding_assignments[a].completed_at]_vars

(***************************************************************************)
(* C12: status never regresses under sequential calls: no step takes an    *)
(* assignment from COMPLETED to another status, nor from IN_PROGRESS back  *)
(* to NOT_STARTED.                                                         *)
(***************************************************************************)
C12_StatusNeverRegresses ==
    [][\A a \in AssignmentIds :
          /\ onboarding_assignments[a].status = COMPLETED
                 => onboarding_assignments'[a].status = COMPLETED
          /\ onboarding_assignments[a].status = IN_PROGRESS
                 => onboarding_assignments'[a].status # NOT_STARTED]_vars

\* An accepted call acted on an assignment that was already COMPLETED: its
\* flow has one text module and completed_at is later than started_at.
C12_Witness ==
    \E a \in AssignmentIds :
        /\ TotalCount(a) = 1
        /\ \A m \in ModulesOf(a) : onboarding_modules[m].content_type = "text"
        /\ onboarding_assignments[a].status = COMPLETED
        /\ onboarding_assignments[a].completed_at
               > onboarding_assignments[a].started_at

(***************************************************************************)
(* An accepted submit_quiz step: the call passes every check and acts on   *)
(* progress row SubmittedRow with grade SubmittedGrade.                    *)
(***************************************************************************)
SubmittedRow(a, m) == FirstProgress(module_progress, a, m)

SubmittedGrade(a, m, ans) ==
    GradeQuiz(onboarding_modules[module_progress[SubmittedRow(a, m)].module_id].quiz_data,
              ans)

AcceptedSubmit(a, m, u, ans) ==
    /\ SubmitOutcome(onboarding_assignments, module_progress, a, m, u) = Ok
    /\ SubmitQuiz(a, m, u, ans, 0)

(***************************************************************************)
(* C13: an accepted quiz submission that fails, on a quiz module not yet   *)
(* completed, records quiz_score and quiz_passed = false, leaves the       *)
(* module's is_completed false, and leaves the assignment's status,        *)
(* completion_percentage, started_at and completed_at unchanged.           *)
(***************************************************************************)
C13_FailedQuizLeavesAssignment ==
    [][\A a \in AssignmentInputs, m \in ModuleInputs, u \in Users, ans \in AnswerMaps :
          (/\ AcceptedSubmit(a, m, u, ans)
           /\ ~module_progress[SubmittedRow(a, m)].is_completed
           /\ ~SubmittedGrade(a, m, ans).passed)
          => /\ module_progress'[SubmittedRow(a, m)].quiz_score
                    = SubmittedGrade(a, m, ans).score
             /\ module_progress'[SubmittedRow(a, m)].quiz_passed = "False"
             /\ ~module_progress'[SubmittedRow(a, m)].is_completed
             /\ onboarding_assignments'[a].status = onboarding_assignments[a].status
             /\ onboarding_assignments'[a].completion_percentage
                    = onboarding_assignments[a].completion_percentage
             /\ onboarding_assignments'[a].started_at
                    = onboarding_assignments[a].started_at
             /\ onboarding_assignments'[a].completed_at
                    = onboarding_assignments[a].completed_at]_vars

(***************************************************************************)
(* C14 (as stated): after every accepted submitQuiz call, resubmissions    *)
(* included, the module's is_completed equals the quiz_passed value that   *)
(* the call recorded.                                                      *)
(***************************************************************************)
C14_CompletedEqualsPassed ==
    [][\A a \in AssignmentInputs, m \in ModuleInputs, u \in Users, ans \in AnswerMaps :
          AcceptedSubmit(a, m, u, ans)
          => (module_progress'[SubmittedRow(a, m)].is_completed
                 <=> module_progress'[SubmittedRow(a, m)].quiz_passed = "True")]_vars

(***************************************************************************)
(* C14 (amended): after every accepted submitQuiz call, resubmissions      *)
(* included, quiz_passed is the result of that call and the module's       *)
(* is_completed is true exactly when it was true before the call or the    *)
(* call passed: a failed attempt never clears a completion.                *)
(***************************************************************************)
C14_CompletedIsStickyOrPassed ==
    [][\A a \in AssignmentInputs, m \in ModuleInputs, u \in Users, ans \in AnswerMaps :
          AcceptedSubmit(a, m, u, ans)
          => /\ module_progress'[SubmittedRow(a, m)].quiz_passed
                    = (IF SubmittedGrade(a, m, ans).passed THEN "True" ELSE "False")
             /\ module_progress'[SubmittedRow(a, m)].is_completed
                    <=> (\/ module_progress[SubmittedRow(a, m)].is_completed
                         \/ SubmittedGrade(a, m, ans).passed)]_vars

\* A failed submission was recorded on a module that was already completed.
C14_Witness ==
    \E i \in Indices(module_progress) :
        /\ module_progress[i].is_completed
        /\ module_progress[i].quiz_passed = "False"

(***************************************************************************)
(* Grading as the properties state it: the number of question indices      *)
(* whose submitted answer equals the correct answer, and the passing score *)
(* in force.                                                               *)
(***************************************************************************)
MatchCount(questions, ans) ==
    Cardinality({i \in 1..Len(questions) :
                    /\ Str(i - 1) \in DOMAIN ans
                    /\ ans[Str(i - 1)] = questions[i]})

PassingScoreOf(quiz_data) ==
    IF quiz_data.passing_score = -1 THEN 70 ELSE quiz_data.passing_score

QuizDataOf(a, m) ==
    onboarding_modules[module_progress[SubmittedRow(a, m)].module_id].quiz_data

GradedSubmit(a, ans) ==
    /\ SubmitOutcome(onboarding_assignments, module_progress, a, 1, GradeUser) = Ok
    /\ SubmitQuiz(a, 1, GradeUser, ans, 0)

(***************************************************************************)
(* C15 (as stated): for a quiz of T >= 1 questions and any answer map, the *)
(* recorded score is round(100 * C / T), C the number of matching answers, *)
(* and passed = (score >= passing_score), passing_score 70 when absent.    *)
(***************************************************************************)
C15_ScoreIsRounded ==
    [][\A a \in AssignmentInputs, ans \in GradeAnswerMaps :
          (GradedSubmit(a, ans) /\ Len(QuizDataOf(a, 1).questions) >= 1)
          => LET qd == QuizDataOf(a, 1)
                 row == module_progress'[SubmittedRow(a, 1)]
             IN  /\ row.quiz_score
                        = RoundPct(MatchCount(qd.questions, ans), Len(qd.questions))
                 /\ row.quiz_passed = "True"
                        <=> row.quiz_score >= PassingScoreOf(qd)]_vars

(***************************************************************************)
(* C15 (amended): for a quiz of T >= 1 questions and any answer map, the   *)
(* recorded score is 100 * C / T truncated to an integer (2 of 3 gives     *)
(* 66), C the number of matching answers, and passed = (score >=           *)
(* passing_score), passing_score 70 when absent.                           *)
(***************************************************************************)
C15_ScoreIsTruncated ==
    [][\A a \in AssignmentInputs, ans \in GradeAnswerMaps :
          (GradedSubmit(a, ans) /\ Len(QuizDataOf(a, 1).questions) >= 1)
          => LET qd == QuizDataOf(a, 1)
                 T == Len(qd.questions)
                 C == MatchCount(qd.questions, ans)
                 row == module_progress'[SubmittedRow(a, 1)]
             IN  /\ row.quiz_score * T <= 100 * C
                 /\ 100 * C < (row.quiz_score + 1) * T
                 /\ row.quiz_passed \in {"True", "False"}
                 /\ row.quiz_passed = "True"
                        <=> row.quiz_score >= PassingScoreOf(qd)]_vars

\* Two of three answers matched: score 66, which passes a passing_score of 50.
C15_Witness ==
    \E i \in Indices(module_progress) :
        /\ Len(onboarding_modules[module_progress[i].module_id].quiz_data.questions) = 3
        /\ module_progress[i].quiz_score = 66
        /\ module_progress[i].quiz_passed = "True"

(***************************************************************************)
(* C16: a quiz with zero questions is graded score 0 and passed = false    *)
(* for every passing_score (0 included) and every answer map, and the      *)
(* submission does not mark the module complete.                           *)
(***************************************************************************)
C16_EmptyQuizNeverPasses ==
    [][\A a \in AssignmentInputs, ans \in GradeAnswerMaps :
          (GradedSubmit(a, ans) /\ Len(QuizDataOf(a, 1).questions) = 0)
          => LET row == module_progress'[SubmittedRow(a, 1)]
             IN  /\ row.quiz_score = 0
                 /\ row.quiz_passed = "False"
                 /\ ~row.is_completed]_vars

(***************************************************************************)
(* C17: completeModule fails with NotFound when no ModuleProgress exists   *)
(* for (assignment, module) and with Forbidden when one exists and the     *)
(* caller is not the assignment's owner, changing no Assignment or         *)
(* ModuleProgress field; and no completeModule or submitQuiz call by a     *)
(* caller other than the owner changes any of them.  Stated step by step:  *)
(* a step either has the demanded outcome, or it is not one of the calls   *)
(* the demand applies to.                                                  *)
(***************************************************************************)
C17_NotFoundForbiddenNoChange ==
    [][/\ \/ (result' = NotFoundException /\ UNCHANGED tables)
           \/ \A a \in AssignmentInputs, m \in ModuleInputs, u \in Users :
                  RowsOf(a, m) = {} => ~CompleteModule(a, m, u, "None", 0)
       /\ \/ (result' = ForbiddenException /\ UNCHANGED tables)
           \/ \A a \in AssignmentInputs, m \in ModuleInputs, u \in Users :
                  (RowsOf(a, m) # {} /\ Owner(a) # u)
                      => ~CompleteModule(a, m, u, "None", 0)
       /\ \/ UNCHANGED tables
           \/ \A a \in AssignmentInputs, m \in ModuleInputs, u \in Users :
                  (RowsOf(a, m) # {} /\ Owner(a) # u)
                      => \A ans \in AnswerMaps : ~SubmitQuiz(a, m, u, ans, 0)]_vars

\* completeModule by a caller who is not the owner was refused: the flow has
\* no quiz module, so the Forbidden result is completeModule's.
C17_Witness ==
    /\ result = ForbiddenException
    /\ onboarding_assignments # <<>>
    /\ \A m \in Indices(onboarding_modules) :
           onboarding_modules[m].content_type = "text"

(***************************************************************************)
(* C18: submitQuiz on a module of the assignment whose type is not quiz    *)
(* fails with Validation and changes no Assignment or ModuleProgress       *)
(* field, whoever the caller is.  Stated step by step: a step either has   *)
(* that outcome or is not such a call.                                     *)
(***************************************************************************)
C18_NonQuizIsValidation ==
    [][\/ (result' = ValidationException /\ UNCHANGED tables)
       \/ \A a \in AssignmentInputs, m \in ModuleInputs, u \in Users :
              (RowsOf(a, m) # {} /\ onboarding_modules[m].content_type # "quiz")
                  => \A ans \in AnswerMaps : ~SubmitQuiz(a, m, u, ans, 0)]_vars

\* submitQuiz on a text module was refused: the only assignment is COMPLETED,
\* so the Validation result is not a refused duplicate assign.
C18_Witness ==
    /\ result = ValidationException
    /\ Len(onboarding_assignments) = 1
    /\ onboarding_assignments[1].status = COMPLETED
    /\ \E m \in ModulesOf(1) : onboarding_modules[m].content_type = "text"

(***************************************************************************)
(* C19: the aggregator is the only writer of status and                    *)
(* completion_percentage: after every step that changes an assignment or   *)
(* one of its ModuleProgress rows, the assignment's status and percentage  *)
(* are those _update_assignment_progress computes from the status before   *)
(* the step and the ModuleProgress rows after it.                          *)
(***************************************************************************)
Touched(a) ==
    \/ onboarding_assignments'[a] # onboarding_assignments[a]
    \/ \E i \in ProgressOf(module_progress, a) : module_progress'[i] # module_progress[i]

C19_AggregatorIsOnlyWriter ==
    [][\A a \in AssignmentIds :
          Touched(a) =>
              LET recomputed == UpdateAssignmentProgress(onboarding_assignments[a], a,
                                                         module_progress', now)
              IN  /\ onboarding_assignments'[a].status = recomputed.status
                  /\ onboarding_assignments'[a].completion_percentage
                         = recomputed.completion_percentage]_vars

(***************************************************************************)
(* C20: an accepted completeModule call on a module that is already        *)
(* completed keeps is_completed true, changes only that ModuleProgress's   *)
(* completed_at and notes, and leaves the assignment's status,             *)
(* completion_percentage, started_at and completed_at as they were.        *)
(***************************************************************************)
C20_RecompletionIsIdempotent ==
    [][\A a \in AssignmentInputs, m \in ModuleInputs, u \in Users :
          (/\ CompleteOutcome(onboarding_assignments, module_progress, a, m, u) = Ok
           /\ module_progress[FirstProgress(module_progress, a, m)].is_completed
           /\ CompleteModule(a, m, u, "None", 0))
          => LET i == FirstProgress(module_progress, a, m)
             IN  /\ result' = Ok
                 /\ module_progress'[i].is_completed
                 /\ module_progress'[i]
                        = [module_progress[i] EXCEPT
                              !.completed_at = module_progress'[i].completed_at,
                              !.notes = module_progress'[i].notes]
                 /\ \A j \in Indices(module_progress) \ {i} :
                        module_progress'[j] = module_progress[j]
                 /\ onboarding_assignments'[a].status = onboarding_assignments[a].status
                 /\ onboarding_assignments'[a].completion_percentage
                        = onboarding_assignments[a].completion_percentage
                 /\ onboarding_assignments'[a].started_at
                        = onboarding_assignments[a].started_at
                 /\ onboarding_assignments'[a].completed_at
                        = onboarding_assignments[a].completed_at]_vars

(***************************************************************************)
(* The handlers over two-module flows with requests that carry             *)
(* time_spent_minutes: the schemas declare int | None without a range, so  *)
(* a negative value is accepted; 0 stands for both None and 0 (falsy).     *)
(***************************************************************************)
TimeInputs == {-1, 0, 1, 2}

CompleteTimed ==
    \E a \in AssignmentInputs, m \in ModuleInputs, u \in Users, t \in TimeInputs :
        CompleteModule(a, m, u, "None", t)

SubmitTimed ==
    \E a \in AssignmentInputs, m \in ModuleInputs, u \in Users,
       ans \in AnswerMaps, t \in TimeInputs :
        SubmitQuiz(a, m, u, ans, t)

NextTime == Assign \/ CompleteTimed \/ SubmitTimed

SpecTime == InitTwo /\ [][NextTime]_vars

\* C21: time_spent is accumulated and non-negative: every accepted
\* completeModule or submitQuiz call that carries a value adds it to the stored
\* time_spent_minutes of its row, and no stored value is below 0 or decreases.
C21_TimeSpentAccumulates ==
    [][/\ \A i \in Indices(module_progress) :
              /\ module_progress'[i].time_spent_minutes >= 0
              /\ module_progress'[i].time_spent_minutes
                     >= module_progress[i].time_spent_minutes
       /\ \A a \in AssignmentInputs, m \in ModuleInputs, u \in Users, t \in TimeInputs :
              LET i == FirstProgress(module_progress, a, m)
              IN  /\ ( /\ CompleteOutcome(onboarding_assignments, module_progress,
                                          a, m, u) = Ok
                       /\ CompleteModule(a, m, u, "None", t) )
                         => module_progress'[i].time_spent_minutes
                                = module_progress[i].time_spent_minutes + t
                  /\ \A ans \in AnswerMaps :
                         ( /\ SubmitOutcome(onboarding_assignments, module_progress,
                                            a, m, u) = Ok
                           /\ SubmitQuiz(a, m, u, ans, t) )
                             => module_progress'[i].time_spent_minutes
                                    = module_progress[i].time_spent_minutes + t]_vars

(***************************************************************************)
(* Scenario B: a flow [required pos0, optional pos1, required pos2]        *)
(***************************************************************************)
DoneSet(a) == {m \in ModulesOf(a) : Done(a, m)}

ScenarioBFlow(a) ==
    LET flow == FlowModules(onboarding_assignments[a].flow_id)
    IN  /\ Len(flow) = 3
        /\ flow[1].is_required /\ ~flow[2].is_required /\ flow[3].is_required

PositionId(a, position) ==
    CHOOSE m \in ModuleAt(onboarding_assignments[a].flow_id, position) : TRUE

\* C22: on a flow [required pos0, optional pos1, required pos2], after assign,
\* completing pos0 gives IN_PROGRESS and 33%; completing pos2 next is rejected
\* with Locked and changes nothing; completing pos1 gives 67% and still
\* IN_PROGRESS; completing pos2 then gives COMPLETED and 100%.
C22_ScenarioB ==
    [][\A a \in AssignmentIds :
        ScenarioBFlow(a) =>
          LET u == Owner(a)
              m0 == PositionId(a, 0)
              m1 == PositionId(a, 1)
              m2 == PositionId(a, 2)
              after == onboarding_assignments'[a]
          IN  /\ (DoneSet(a) = {} /\ CompleteModule(a, m0, u, "None", 0))
                     => (after.status = IN_PROGRESS /\ after.completion_percentage = 33)
              /\ (DoneSet(a) = {m0} /\ CompleteModule(a, m2, u, "None", 0))
                     => (result' = Locked /\ UNCHANGED tables)
              /\ (DoneSet(a) = {m0} /\ CompleteModule(a, m1, u, "None", 0))
                     => (after.status = IN_PROGRESS /\ after.completion_percentage = 67)
              /\ (DoneSet(a) = {m0, m1} /\ CompleteModule(a, m2, u, "None", 0))
                     => (after.status = COMPLETED /\ after.completion_percentage = 100)]_vars

(***************************************************************************)
(* AssignmentPage (frontend): the module list of the assignment's flow,    *)
(* the module progress data of the query cache and selectedModuleIndex.    *)
(* The frontend's ModuleProgress carries a status; a module without a      *)
(* record is absent from the domain of progress.  Indices are the          *)
(* JavaScript ones (0-based); sequences here are 1-based.                  *)
(***************************************************************************)
Undefined == "undefined"
PageStatuses == {IN_PROGRESS, COMPLETED}

\* Array.prototype.sort((a, b) => a.order_index - b.order_index): stable.
RECURSIVE InsertByOrderIndex(_, _)
InsertByOrderIndex(sorted, x) ==
    IF sorted = <<>> THEN <<x>>
    ELSE IF sorted[Len(sorted)].order <= x.order THEN Append(sorted, x)
    ELSE Append(InsertByOrderIndex(SubSeq(sorted, 1, Len(sorted) - 1), x),
                sorted[Len(sorted)])

RECURSIVE SortByOrderIndex(_)
SortByOrderIndex(ms) ==
    IF ms = <<>> THEN <<>>
    ELSE InsertByOrderIndex(SortByOrderIndex(SubSeq(ms, 1, Len(ms) - 1)), ms[Len(ms)])

modules == SortByOrderIndex(onboarding_modules)

\* progress?.find((p) => p.module_id === moduleId), read through ?.status
getModuleProgress(prog, moduleId) ==
    IF moduleId \in DOMAIN prog THEN prog[moduleId] ELSE Undefined

isModuleLockedAllPrior(ms, prog, index) ==
    \E k \in 0..(index - 1) : getModuleProgress(prog, ms[k + 1].id) # COMPLETED

isModuleLocked(ms, prog, index) ==
    IF index = 0 THEN FALSE
    ELSE getModuleProgress(prog, ms[index].id) # COMPLETED

\* Flows as the server delivers them: 1..MaxModules modules in id order, their
\* order_index values any arrangement of the positions 0..n-1.
Arrangements(n) ==
    { ord \in [1..n -> 0..(n - 1)] : \A i, j \in 1..n : ord[i] = ord[j] => i = j }

PageCatalogs ==
    UNION { { [i \in 1..n |->
                 [id |-> i, flow_id |-> 1, order |-> ord[i], is_required |-> TRUE,
                  content_type |-> "text", quiz_data |-> NoQuiz]] :
              ord \in Arrangements(n) } :
            n \in 1..MaxModules }

Ledgers(ids) == UNION { [S -> PageStatuses] : S \in SUBSET ids }

InitPage ==
    /\ onboarding_modules \in PageCatalogs
    /\ onboarding_assignments = <<>>
    /\ module_progress = <<>>
    /\ now = 1
    /\ result = Ok
    /\ sessions = [s \in Sessions |-> Idle]
    /\ progress \in Ledgers(Indices(onboarding_modules))
    /\ selectedModuleIndex = 0

server == <<onboarding_modules, onboarding_assignments, module_progress, now,
            result, sessions>>

\* Sidebar button: onClick={() => !locked && setSelectedModuleIndex(index)}
SidebarClick(index) ==
    /\ index \in 0..(Len(modules) - 1)
    /\ ~isModuleLocked(modules, progress, index)
    /\ selectedModuleIndex' = index
    /\ UNCHANGED <<server, progress>>

\* 'Anterior': disabled={selectedModuleIndex === 0}
Anterior ==
    /\ selectedModuleIndex # 0
    /\ selectedModuleIndex' = selectedModuleIndex - 1
    /\ UNCHANGED <<server, progress>>

\* 'Siguiente': disabled on the last module or when the next one is locked
Siguiente ==
    /\ ~ \/ selectedModuleIndex = Len(modules) - 1
         \/ isModuleLocked(modules, progress, selectedModuleIndex + 1)
    /\ selectedModuleIndex' = selectedModuleIndex + 1
    /\ UNCHANGED <<server, progress>>

\* 'Marcar como completado' (offered while the current module's progress is
\* not completed) followed by the mutation's onSuccess: the queries are
\* invalidated and the page advances; the cached progress is still the old one.
handleCompleteModule ==
    /\ selectedModuleIndex \in 0..(Len(modules) - 1)
    /\ getModuleProgress(progress, modules[selectedModuleIndex + 1].id) # COMPLETED
    /\ selectedModuleIndex' =
           IF selectedModuleIndex < Len(modules) - 1
           THEN selectedModuleIndex + 1 ELSE selectedModuleIndex
    /\ UNCHANGED <<server, progress>>

\* useModuleProgress refetches: any ledger the server can return that keeps
\* the records and the completions already seen.
Refetch(ledger) ==
    /\ ledger # progress
    /\ \A m \in DOMAIN progress :
           m \in DOMAIN ledger /\ (progress[m] = COMPLETED => ledger[m] = COMPLETED)
    /\ progress' = ledger
    /\ UNCHANGED <<server, selectedModuleIndex>>

NextPage ==
    \/ \E index \in 0..(MaxModules - 1) : SidebarClick(index)
    \/ Anterior
    \/ Siguiente
    \/ handleCompleteModule
    \/ \E ledger \in Ledgers(Indices(onboarding_modules)) : Refetch(ledger)

SpecPage == InitPage /\ [][NextPage]_vars

PredecessorCompleted(prog, index) ==
    /\ modules[index].id \in DOMAIN prog
    /\ prog[modules[index].id] = COMPLETED

\* C23: over the modules sorted by position, isModuleLocked is false for the
\* first module and, for every other index, true exactly when the progress of
\* the module at the preceding index is not completed (no record counts as not
\* completed); the result is the same for every ledger that agrees on that
\* predecessor, whatever it says about the other modules.
C23_LockedIffPredecessorIncomplete ==
    /\ { modules[k].id : k \in Indices(modules) } = Indices(onboarding_modules)
    /\ \A k \in 1..(Len(modules) - 1) : modules[k].order <= modules[k + 1].order
    /\ ~isModuleLocked(modules, progress, 0)
    /\ \A index \in 1..(Len(modules) - 1) :
           /\ isModuleLocked(modules, progress, index)
                  <=> ~PredecessorCompleted(progress, index)
           /\ \A other \in Ledgers(Indices(onboarding_modules)) :
                  (PredecessorCompleted(other, index)
                       <=> PredecessorCompleted(progress, index))
                      => (isModuleLocked(modules, other, index)
                              <=> isModuleLocked(modules, progress, index))

\* The third module was selected in the sidebar as unlocked while the second
\* one is locked: the first module is not completed, the second one is.
C23_Witness ==
    /\ Len(modules) = 3
    /\ selectedModuleIndex = 2
    /\ ~isModuleLocked(modules, progress, 2)
    /\ isModuleLocked(modules, progress, 1)
    /\ modules[1].id # 1

\* C29: selectedModuleIndex stays within 0..modules.length-1 and never
\* designates a module for which isModuleLocked is true, so 'Marcar como
\* completado' is never offered for a locked module.
C29_SelectedIsInRangeAndUnlocked ==
    /\ selectedModuleIndex \in 0..(Len(modules) - 1)
    /\ ~isModuleLocked(modules, progress, selectedModuleIndex)

(***************************************************************************)
(* Flow authoring next to the engine: create_module, update_module,        *)
(* delete_module and reorder_modules on the catalog while assignments      *)
(* exist.  Row ids stay table indices: a deleted module keeps its slot     *)
(* with flow_id 0, and the module_progress rows that the foreign key       *)
(* (ondelete CASCADE) removes with it keep theirs with assignment_id 0; no *)
(* query selects such a row.  The catalog holds at most MaxModules - 1     *)
(* rows, all of flow 1, and one assignment of that flow is created.        *)
(***************************************************************************)
OrderInputs == 0..(MaxModules - 2)

\* OnboardingModuleCreate: text modules, any order, required or optional
CreateInputs ==
    { [order |-> o, is_required |-> r, content_type |-> "text", quiz_data |-> NoQuiz] :
        o \in OrderInputs, r \in BOOLEAN }

\* OnboardingModuleUpdate after model_dump(exclude_unset=True)
UpdateInputs ==
    { [is_required |-> r] : r \in BOOLEAN }
    \cup { [order |-> o] : o \in OrderInputs }
    \cup { [order |-> o, is_required |-> r] : o \in OrderInputs, r \in BOOLEAN }

\* module_orders: {module_id: new_order}
ReorderInputs ==
    UNION { [S -> OrderInputs] : S \in SUBSET ModuleInputs \ {{}} }

\* get_module
ModuleExists(module_id) ==
    /\ module_id \in Indices(onboarding_modules)
    /\ onboarding_modules[module_id].flow_id # 0

CreateModule(flow_id, data) ==
    /\ AllIdle
    /\ IF flow_id \notin FlowIds THEN Fail(NotFoundException)
       ELSE /\ Len(onboarding_modules) < MaxModules - 1
            /\ onboarding_modules' =
                   Append(onboarding_modules,
                          [id |-> Len(onboarding_modules) + 1,
                           flow_id |-> flow_id,
                           order |-> data.order,
                           is_required |-> data.is_required,
                           content_type |-> data.content_type,
                           quiz_data |-> data.quiz_data])
            /\ result' = Ok
            /\ UNCHANGED <<page, onboarding_assignments, module_progress, now, sessions>>

UpdateModule(module_id, data) ==
    /\ AllIdle
    /\ IF ~ModuleExists(module_id) THEN Fail(NotFoundException)
       ELSE /\ onboarding_modules' =
                   [onboarding_modules EXCEPT ![module_id] =
                       [field \in DOMAIN @ |->
                           IF field \in DOMAIN data THEN data[field] ELSE @[field]]]
            /\ result' = Ok
            /\ UNCHANGED <<page, onboarding_assignments, module_progress, now, sessions>>

DeleteModule(module_id) ==
    /\ AllIdle
    /\ IF ~ModuleExists(module_id) THEN Fail(NotFoundException)
       ELSE /\ onboarding_modules' =
                   [onboarding_modules EXCEPT ![module_id].flow_id = 0]
            /\ module_progress' =
                   [i \in Indices(module_progress) |->
                       IF module_progress[i].module_id = module_id
                       THEN [module_progress[i] EXCEPT !.assignment_id = 0]
                       ELSE module_progress[i]]
            /\ result' = Ok
            /\ UNCHANGED <<page, onboarding_assignments, now, sessions>>

\* The loop raises at the first key that fails, in the order of the caller's
\* dict; nothing is committed then.
ReorderFailures(flow_id, module_orders) ==
    { NotFoundException : m \in {k \in DOMAIN module_orders : ~ModuleExists(k)} }
    \cup { ValidationException :
             m \in {k \in DOMAIN module_orders :
                       ModuleExists(k) /\ onboarding_modules[k].flow_id # flow_id} }

ReorderModules(flow_id, module_orders) ==
    /\ AllIdle
    /\ IF ReorderFailures(flow_id, module_orders) # {}
       THEN \E failure \in ReorderFailures(flow_id, module_orders) : Fail(failure)
       ELSE /\ onboarding_modules' =
                   [m \in Indices(onboarding_modules) |->
                       IF m \in DOMAIN module_orders
                       THEN [onboarding_modules[m] EXCEPT !.order = module_orders[m]]
                       ELSE onboarding_modules[m]]
            /\ result' = Ok
            /\ UNCHANGED <<page, onboarding_assignments, module_progress, now, sessions>>

AuthoringCatalogs ==
    UNION { { ModuleRows(kinds, [i \in 1..n |-> 1]) :
                kinds \in [1..n -> {k \in ModuleKinds : k.content_type = "text"}] } :
            n \in 0..(MaxModules - 2) }

InitAuthoring ==
    /\ onboarding_modules \in AuthoringCatalogs
    /\ onboarding_assignments = <<>>
    /\ module_progress = <<>>
    /\ now = 1
    /\ result = Ok
    /\ sessions = [s \in Sessions |-> Idle]
    /\ progress = <<>>
    /\ selectedModuleIndex = 0

AuthoringUser == "u1"

\* One assignment of flow 1 is created.
AssignAuthored == onboarding_assignments = <<>> /\ AssignFlow(1, AuthoringUser)

CompleteAuthored ==
    \E a \in AssignmentInputs, m \in ModuleInputs :
        CompleteModule(a, m, AuthoringUser, "None", 0)

Create == \E f \in {1, 3}, data \in CreateInputs : CreateModule(f, data)

Update == \E m \in ModuleInputs, data \in UpdateInputs : UpdateModule(m, data)

Delete == \E m \in ModuleInputs : DeleteModule(m)

Reorder ==
    \E f \in FlowIds, module_orders \in ReorderInputs : ReorderModules(f, module_orders)

NextAuthoring ==
    AssignAuthored \/ CompleteAuthored \/ Create \/ Update \/ Delete \/ Reorder

SpecAuthoring == InitAuthoring /\ [][NextAuthoring]_vars

\* What an assignment's percentage and required-completion check are computed
\* over: the modules of its flow with their order and required flag.
ModuleSetOf(a) ==
    { <<m, onboarding_modules[m].order, onboarding_modules[m].is_required>> :
        m \in ModulesOf(a) }

\* C24: a flow's module list and required flags do not change while an
\* assignment references the flow: no create, update, delete or reorder of a
\* module alters the module set of an existing assignment.
C24_FlowFrozenWhileAssigned ==
    [][\A a \in AssignmentIds : ModuleSetOf(a)' = ModuleSetOf(a)]_vars

IsQuizRow(i) ==
    onboarding_modules[module_progress[i].module_id].content_type = "quiz"

\* C25: the ModuleProgress of a quiz module becomes completed only by a
\* submitQuiz call graded as passed: whenever such a row goes from not
\* completed to completed, the step recorded quiz_passed = true on it.
C25_QuizCompletedOnlyByPassing ==
    [][\A i \in Indices(module_progress) :
          (IsQuizRow(i) /\ ~module_progress[i].is_completed
                        /\ module_progress'[i].is_completed)
              => module_progress'[i].quiz_passed = "True"]_vars

\* C26: in every reachable state the assignment's status agrees with its
\* timestamps and ledger: NOT_STARTED implies started_at unset, completed_at
\* unset, percentage 0 and no module completed; IN_PROGRESS implies started_at
\* set and completed_at unset; COMPLETED implies completed_at set and, for a
\* non-empty flow, started_at set and no later than completed_at.
C26_StatusAgreesWithTimestamps ==
    \A a \in AssignmentIds :
        LET assignment == onboarding_assignments[a]
        IN  /\ assignment.status = NOT_STARTED
                   => /\ assignment.started_at = 0
                      /\ assignment.completed_at = 0
                      /\ assignment.completion_percentage = 0
                      /\ DoneCount(a) = 0
            /\ assignment.status = IN_PROGRESS
                   => /\ assignment.started_at # 0
                      /\ assignment.completed_at = 0
            /\ assignment.status = COMPLETED
                   => /\ assignment.completed_at # 0
                      /\ TotalCount(a) > 0
                             => /\ assignment.started_at # 0
                                /\ assignment.started_at <= assignment.completed_at

\* C27: progress is monotone: across any sequence of completeModule and
\* submitQuiz calls no ModuleProgress goes from completed back to not
\* completed, and no assignment's completion_percentage decreases.
C27_ProgressIsMonotone ==
    [][/\ \A i \in Indices(module_progress) :
              module_progress[i].is_completed => module_progress'[i].is_completed
       /\ \A a \in AssignmentIds :
              onboarding_assignments'[a].completion_percentage
                  >= onboarding_assignments[a].completion_percentage]_vars

\* A failed submission is on record for a completed quiz module of a
\* one-module flow whose assignment still stands at 100 percent.
C27_Witness ==
    \E i \in Indices(module_progress) :
        /\ IsQuizRow(i)
        /\ module_progress[i].is_completed
        /\ module_progress[i].quiz_passed = "False"
        /\ onboarding_assignments[module_progress[i].assignment_id].completion_percentage = 100

\* C28: for an existing ModuleProgress, every completeModule and submitQuiz
\* call by a caller who does not own the assignment fails with Forbidden and
\* changes nothing, whatever the module's type or completion state.
C28_NonOwnerIsForbidden ==
    [][\/ (result' = ForbiddenException /\ UNCHANGED tables)
       \/ \A a \in AssignmentInputs, m \in ModuleInputs, u \in Users :
              (RowsOf(a, m) # {} /\ u # Owner(a))
                  => /\ ~CompleteModule(a, m, u, "None", 0)
                     /\ \A ans \in AnswerMaps : ~SubmitQuiz(a, m, u, ans, 0)]_vars

(***************************************************************************)
(* Progress towards completion: next to calls on any module and with any   *)
(* answers, the owner of an assignment completes its lowest-position       *)
(* incomplete module, with complete_module or, on a quiz module, with the  *)
(* correct answers.  The owner keeps doing so (weak fairness of that       *)
(* call).  The clock bound of the model leaves room for it: another call   *)
(* is taken only if the calls still needed fit below MaxClock afterwards.  *)
(***************************************************************************)
LiveCatalogs == {c \in Catalogs : Len(c) \in 1..(MaxClock - 1)}

InitLive ==
    /\ onboarding_modules \in LiveCatalogs
    /\ onboarding_assignments = <<>>
    /\ module_progress = <<>>
    /\ now = 1
    /\ result = Ok
    /\ sessions = [s \in Sessions |-> Idle]
    /\ progress = <<>>
    /\ selectedModuleIndex = 0

Remaining ==
    { <<a, m>> \in AssignmentIds \X Indices(onboarding_modules) :
        m \in ModulesOf(a) /\ ~Done(a, m) }

Room == now + Cardinality(Remaining) <= MaxClock + 1

\* The incomplete module of the lowest position (0 if none is left)
LowestIncomplete(a) ==
    LET left == {m \in ModulesOf(a) : ~Done(a, m)}
    IN  IF left = {} THEN 0
        ELSE CHOOSE m \in left : \A other \in left :
                 \/ onboarding_modules[m].order < onboarding_modules[other].order
                 \/ /\ onboarding_modules[m].order = onboarding_modules[other].order
                    /\ m <= other

\* The answers that match every question's correct_answer
CorrectAnswers(quiz_data) ==
    LET questions == quiz_data.questions
    IN  [key \in { Str(i - 1) : i \in Indices(questions) } |->
            questions[CHOOSE i \in Indices(questions) : Str(i - 1) = key]]

OwnerCompletes(a, m, u) ==
    /\ u = Owner(a)
    /\ m = LowestIncomplete(a)
    /\ IF onboarding_modules[m].content_type = "quiz"
       THEN SubmitQuiz(a, m, u, CorrectAnswers(onboarding_modules[m].quiz_data), 0)
       ELSE CompleteModule(a, m, u, "None", 0)

CompleteLowest ==
    \E a \in AssignmentIds, m \in ModuleInputs, u \in Users : OwnerCompletes(a, m, u)

LiveUser == "u1"

AssignLive == AssignFlow(1, LiveUser) /\ Room'

CompleteLive ==
    /\ \E a \in AssignmentInputs, m \in ModuleInputs :
           CompleteModule(a, m, LiveUser, "None", 0)
    /\ Room'

SubmitLive ==
    /\ \E a \in AssignmentInputs, m \in ModuleInputs, ans \in AnswerMaps :
           SubmitQuiz(a, m, LiveUser, ans, 0)
    /\ Room'

NextLive == AssignLive \/ CompleteLive \/ SubmitLive \/ CompleteLowest

SpecLive == InitLive /\ [][NextLive]_vars /\ WF_vars(CompleteLowest)

Finished(a) ==
    /\ onboarding_assignments[a].status = COMPLETED
    /\ onboarding_assignments[a].completion_percentage = 100

====
